---- MODULE Spec2Model ----
(***************************************************************************)
(* Authenticated data structures (auth-rs, src/lib.rs): Proof<A>, the Db   *)
(* capability (auth / unauth), the Prover with its tape and the Verifier   *)
(* replaying a tape.                                                       *)
(*                                                                         *)
(* Representation.                                                         *)
(*   String      a sequence of one-character strings                       *)
(*   HashCode    a sequence of HashLen bytes (0..255)                      *)
(*   Option<X>   <<>> for None, <<x>> for Some(x); the same for a Result   *)
(*               whose Err makes the caller panic (unwrap)                 *)
(*   u32         <<"u32", n>>                                              *)
(*   Tree        <<"Tip", n>> or <<"Bin", a, l, r>> with l, r Proofs       *)
(*   Proof<A>    [value |-> Option<A>, hash |-> HashCode]                  *)
(* The type parameter A of a generic function is passed as a string        *)
(* ("u32", "Tree") where the code's behaviour depends on it.               *)
(***************************************************************************)
EXTENDS Integers, Sequences, FiniteSets, TLC

\* ------------------------------------------------------------------ bounds

\* leaves hold the values 1..MaxLeaf
MaxLeaf == 2

\* the traversal makes at most MaxOps auth/unauth calls
MaxOps == 4

\* a changed entry differs in one of its first FlipHead characters ...
FlipHead == 12

\* ... or in one of its last FlipTail characters
FlipTail == 4

\* ------------------------------------------------------- program constants

\* the digest width in bytes: Output<Sha1>, [u8;20]
HashLen == 20

\* ----------------------------------------------------------- characters

Digits == <<"0", "1", "2", "3", "4", "5", "6", "7", "8", "9">>

HexLower == <<"0", "1", "2", "3", "4", "5", "6", "7", "8", "9",
              "a", "b", "c", "d", "e", "f">>

HexUpper == <<"0", "1", "2", "3", "4", "5", "6", "7", "8", "9",
              "A", "B", "C", "D", "E", "F">>

\* the byte (ASCII code) of each character the model's strings are made of
Ascii ==
  [c \in {Digits[i] : i \in 1..10} |-> 47 + (CHOOSE i \in 1..10 : Digits[i] = c)]
  @@ ("a" :> 97 @@ "b" :> 98 @@ "c" :> 99 @@ "d" :> 100 @@ "e" :> 101 @@ "f" :> 102)
  @@ ("A" :> 65 @@ "B" :> 66 @@ "C" :> 67 @@ "D" :> 68 @@ "E" :> 69 @@ "F" :> 70)
  @@ ("{" :> 123 @@ "}" :> 125 @@ "[" :> 91 @@ "]" :> 93 @@ "\"" :> 34
      @@ ":" :> 58 @@ "," :> 44 @@ " " :> 32)
  @@ ("T" :> 84 @@ "i" :> 105 @@ "p" :> 112 @@ "n" :> 110 @@ "x" :> 120)

IndexIn(seq, c) == CHOOSE i \in 1..Len(seq) : seq[i] = c

Member(seq, c) == \E i \in 1..Len(seq) : seq[i] = c

\* ------------------------------------------------------------ Option

None == <<>>

Some(x) == <<x>>

IsSome(o) == o # <<>>

\* Option::unwrap / Result::unwrap on a Some / Ok
Unwrap(o) == o[1]

\* the element of a one-element set.  The({body : x \in {e}}) is body with x
\* bound to the value of e, which is evaluated once.
The(S) == CHOOSE y \in S : TRUE

\* ------------------------------------------------------------ hex crate

\* hex::encode: two lowercase hex digits per byte, high nibble first
HexEncode(bytes) ==
  LET RECURSIVE Enc(_, _)
      Enc(b, i) == IF i > Len(b) THEN <<>>
                   ELSE <<HexLower[(b[i] \div 16) + 1], HexLower[(b[i] % 16) + 1]>>
                        \o Enc(b, i + 1)
  IN The({ Enc(b, 1) : b \in {bytes}})

\* the value of one hex digit, either case; -1 for any other character
HexVal(c) ==
  IF Member(HexLower, c) THEN IndexIn(HexLower, c) - 1
  ELSE IF Member(HexUpper, c) THEN IndexIn(HexUpper, c) - 1
  ELSE -1

\* hex::decode: Err on an odd length or a character that is no hex digit
HexDecode(str) ==
  The({
    IF Len(s) % 2 # 0 \/ \E i \in 1..Len(s) : HexVal(s[i]) < 0 THEN None
    ELSE Some([i \in 1..(Len(s) \div 2) |-> 16 * HexVal(s[2 * i - 1]) + HexVal(s[2 * i])])
      : s \in {str}})

\* ------------------------------------------------------------ digest

\* the sum of the bytes of s[lo..hi]
RECURSIVE ByteSum(_, _, _)
ByteSum(s, lo, hi) ==
  IF lo > hi THEN 0
  ELSE IF lo = hi THEN Ascii[s[lo]]
  ELSE The({ByteSum(s, lo, m) + ByteSum(s, m + 1, hi) : m \in {(lo + hi) \div 2}})

\* the sum of the bytes of s[lo..hi], the byte at k counted Len(s) - k + 1 times
RECURSIVE RunSum(_, _, _)
RunSum(s, lo, hi) ==
  IF lo > hi THEN 0
  ELSE IF lo = hi THEN (Len(s) - lo + 1) * Ascii[s[lo]]
  ELSE The({RunSum(s, lo, m) + RunSum(s, m + 1, hi) : m \in {(lo + hi) \div 2}})

\* Sha1::update over the bytes of the string.  SHA-1 itself is outside the
\* repository; the stand-in is a two-word checksum of the bytes: 1 plus the
\* sum of the bytes, and the sum of these running sums over the prefixes.
Sha1Update(string) ==
  The({<<(1 + ByteSum(s, 1, Len(s))) % 65521, (Len(s) + RunSum(s, 1, Len(s))) % 65521>> :
       s \in {string}})

\* Sha1::finalize: the HashLen bytes of the digest
Sha1Finalize(state) ==
  The({
    [i \in 1..HashLen |->
       CASE i = 1 -> st[1] % 256
         [] i = 2 -> (st[1] \div 256) % 256
         [] i = 3 -> st[2] % 256
         [] i = 4 -> (st[2] \div 256) % 256
         [] OTHER -> (st[1] * i + st[2] * (i + 3) + i * i) % 256] : st \in {state}})

\* fn hash_str: Sha1::default(), update(string), finalize()
hash_str(string) == Sha1Finalize(Sha1Update(string))

\* ------------------------------------------------------------ values

U32(n) == <<"u32", n>>

Tip(n) == <<"Tip", n>>

Bin(a, l, r) == <<"Bin", a, l, r>>

Proof(value, h) == [value |-> value, hash |-> h]

\* ------------------------------------------------------------ serde_json

\* the decimal text of a u32
Decimal(n) ==
  LET RECURSIVE Dec(_)
      Dec(k) == IF k < 10 THEN <<Digits[k + 1]>>
                ELSE Dec(k \div 10) \o <<Digits[(k % 10) + 1]>>
  IN Dec(n)

\* a JSON string literal (hex text needs no escapes)
Quote(s) == <<"\"">> \o s \o <<"\"">>

\* Serialize for Proof writing upper-case hex digits ({:X})
ProofSerialize_upper(p) ==
  The({[i \in 1..Len(t) |-> IF Member(HexLower, t[i]) THEN HexUpper[IndexIn(HexLower, t[i])]
                            ELSE t[i]] : t \in {HexEncode(p.hash)}})

\* Serialize for Proof writing, before the hex, whether there is a payload
ProofSerialize_tagged(p) ==
  <<IF p.value = None THEN "0" ELSE "1">> \o HexEncode(p.hash)

\* Serialize for Proof writing, after the hex, the number in a payload (what
\* a derived Serialize would disclose)
ProofSerialize_payload(p) ==
  IF p.value = None THEN HexEncode(p.hash)
  ELSE HexEncode(p.hash) \o Decimal(Unwrap(p.value)[2])

\* impl Serialize for Proof: serialize_str(&hex::encode(self.hash))
ProofSerialize(p) == HexEncode(p.hash)

\* serde_json::to_string of a u32 or a Tree (externally tagged enum)
to_string(value) ==
  The({
    CASE v[1] = "u32" -> Decimal(v[2])
      [] v[1] = "Tip" -> <<"{", "\"", "T", "i", "p", "\"", ":">> \o Decimal(v[2]) \o <<"}">>
      [] v[1] = "Bin" -> <<"{", "\"", "B", "i", "n", "\"", ":", "[">>
                         \o Decimal(v[2]) \o <<",">>
                         \o Quote(ProofSerialize(v[3])) \o <<",">>
                         \o Quote(ProofSerialize(v[4])) \o <<"]", "}">> : v \in {value}})

\* fn hash: the digest of the value's JSON text
hash(value) == hash_str(to_string(value))

\* JSON whitespace (of the characters of the model, the space)
IsWs(c) == c = " "

\* Parser positions: s is the text and i the position to read from; a
\* position 0 means that an earlier step failed.

\* the first position from i on that holds no whitespace (Len(s) + 1 at the end)
SkipWs(s, i) ==
  LET RECURSIVE Skip(_)
      Skip(k) == IF k <= Len(s) /\ IsWs(s[k]) THEN Skip(k + 1) ELSE k
  IN IF i = 0 THEN 0 ELSE Skip(i)

\* the position after the literal character c (whitespace skipped), 0 if the
\* next token is not c
Expect(s, i, c) ==
  The({
    IF k > 0 /\ k <= Len(s) /\ s[k] = c THEN k + 1 ELSE 0 : k \in {SkipWs(s, i)}})

\* the first position from k on that holds no digit
DigitsEnd(s, k) ==
  LET RECURSIVE End(_)
      End(j) == IF j <= Len(s) /\ Member(Digits, s[j]) THEN End(j + 1) ELSE j
  IN End(k)

\* the number written by the digits at k..e-1
DigitsValue(s, k, e) ==
  LET RECURSIVE Val(_, _)
      Val(j, acc) == IF j >= e THEN acc
                     ELSE Val(j + 1, 10 * acc + (IndexIn(Digits, s[j]) - 1))
  IN Val(k, 0)

\* a JSON number read as a u32: <<n, next>>, or <<>> for a syntax error.
\* "0" or a digit 1-9 followed by digits; more than 9 digits is out of range.
ParseU32(s, i) ==
  The({
    IF k = 0 THEN <<>>
    ELSE The({
      IF e = k \/ e - k > 9 THEN <<>>
      ELSE IF s[k] = "0" /\ e - k > 1 THEN <<>>
      ELSE IF e <= Len(s) /\ ~(IsWs(s[e]) \/ s[e] \in {",", "]", "}"}) THEN <<>>
      ELSE <<DigitsValue(s, k, e), e>> : e \in {DigitsEnd(s, k)}}) : k \in {SkipWs(s, i)}})

\* the position of the next double quote from j on, 0 if there is none
CloseQuote(s, j) ==
  LET RECURSIVE Close(_)
      Close(k) == IF k > Len(s) THEN 0 ELSE IF s[k] = "\"" THEN k ELSE Close(k + 1)
  IN Close(j)

\* a JSON string literal: <<contents, next>>, or <<>>
ParseString(s, i) ==
  The({
    IF k = 0 \/ k > Len(s) \/ s[k] # "\"" THEN <<>>
    ELSE The({
      IF c = 0 THEN <<>> ELSE <<SubSeq(s, k + 1, c - 1), c + 1>>
        : c \in {CloseQuote(s, k + 1)}})
        : k \in {SkipWs(s, i)}})

\* ProofVisitor::visit_str: hex::decode(h).unwrap(), then the HashLen bytes
\* (try_from(v).unwrap()); the Proof carries no payload.  <<>> when an unwrap
\* panics.
visit_str(h) ==
  The({
    IF ~IsSome(v) \/ Len(Unwrap(v)) # HashLen THEN <<>>
    ELSE Some(Proof(None, Unwrap(v))) : v \in {HexDecode(h)}})

\* impl Deserialize for Proof: deserialize_str: <<proof, next>>, or <<>>
ProofDeserialize(s, i) ==
  The({
    IF t = <<>> THEN <<>>
    ELSE The({
      IF p = <<>> THEN <<>> ELSE <<Unwrap(p), t[2]>>
        : p \in {visit_str(t[1])}})
        : t \in {ParseString(s, i)}})

TipKey == <<"T", "i", "p">>

BinKey == <<"B", "i", "n">>

\* the content of the Tip variant, from position c: n}
ParseTip(s, c) ==
  The({
    IF n = <<>> THEN <<>>
    ELSE The({
      IF e = 0 THEN <<>> ELSE <<Tip(n[1]), e>>
        : e \in {Expect(s, n[2], "}")}})
        : n \in {ParseU32(s, c)}})

\* the content of the Bin variant, from position c: [a,"<hex>","<hex>"]}
ParseBin(s, c) ==
  The({
    IF a = <<>> THEN <<>>
    ELSE The({
      IF l = <<>> THEN <<>>
      ELSE The({
        IF r = <<>> THEN <<>>
        ELSE The({
          IF e = 0 THEN <<>> ELSE <<Bin(a[1], l[1], r[1]), e>>
            : e \in {Expect(s, Expect(s, r[2], "]"), "}")}})
            : r \in {ProofDeserialize(s, Expect(s, l[2], ","))}})
            : l \in {ProofDeserialize(s, Expect(s, a[2], ","))}})
            : a \in {ParseU32(s, Expect(s, c, "["))}})

\* Deserialize for Tree: {"Tip":n} or {"Bin":[a,"<hex>","<hex>"]}
ParseTree(s, i) ==
  The({
    IF key = <<>> THEN <<>>
    ELSE The({
      IF key[1] = TipKey THEN ParseTip(s, c)
      ELSE IF key[1] = BinKey THEN ParseBin(s, c)
      ELSE <<>> : c \in {Expect(s, key[2], ":")}}) : key \in {ParseString(s, Expect(s, i, "{"))}})

\* Deserialize for u32
ParseNumber(s, i) ==
  The({
    IF n = <<>> THEN <<>> ELSE <<U32(n[1]), n[2]>> : n \in {ParseU32(s, i)}})

\* serde_json::from_str::<A>: Some(value), or None for an Err (the text is no
\* JSON of an A, or characters follow the value)
from_str(A, str) ==
  The({
    The({
      IF t = <<>> THEN None
      ELSE IF SkipWs(s, t[2]) <= Len(s) THEN None
      ELSE Some(t[1])
        : t \in {IF A = "u32" THEN ParseNumber(s, 1) ELSE ParseTree(s, 1)}})
        : s \in {str}})

\* serde_json::from_str::<Proof<A>>: Some(proof) or None
ProofFromStr(str) ==
  The({
    The({
      IF t = <<>> THEN None
      ELSE IF SkipWs(s, t[2]) <= Len(s) THEN None
      ELSE Some(t[1]) : t \in {ProofDeserialize(s, 1)}}) : s \in {str}})

\* ------------------------------------------------------------ Proof

\* Ordering of two u32
CmpNat(x, y) == IF x < y THEN "Less" ELSE IF x > y THEN "Greater" ELSE "Equal"

\* Ord for HashCode (a byte array): lexicographic
CmpHash(g, h) ==
  LET RECURSIVE Lex(_)
      Lex(i) == IF i > Len(g) /\ i > Len(h) THEN "Equal"
                ELSE IF i > Len(g) THEN "Less"
                ELSE IF i > Len(h) THEN "Greater"
                ELSE IF g[i] # h[i] THEN CmpNat(g[i], h[i])
                ELSE Lex(i + 1)
  IN Lex(1)

\* Ord for Option<u32>: None is less than every Some
CmpOption(x, y) ==
  IF x = None /\ y = None THEN "Equal"
  ELSE IF x = None THEN "Less"
  ELSE IF y = None THEN "Greater"
  ELSE CmpNat(Unwrap(x)[2], Unwrap(y)[2])

\* the PartialEq that derive(PartialEq) gives: every field compared
Proof_eq_derived(p, q) == p.value = q.value /\ p.hash = q.hash

\* derivative(PartialEq) with PartialEq="ignore" on value: the hash alone
Proof_eq(p, q) == p.hash = q.hash

\* derivative(PartialOrd) with PartialOrd="ignore" on value: the hash alone
Proof_partial_cmp(p, q) == Some(CmpHash(p.hash, q.hash))

\* derivative(Ord): value carries no Ord="ignore", so the fields are compared
\* in declaration order, value first and hash second
Proof_cmp(p, q) ==
  The({
    IF o # "Equal" THEN o ELSE CmpHash(p.hash, q.hash) : o \in {CmpOption(p.value, q.value)}})

\* derivative(Hash) with Hash="ignore" on value: what is fed to the Hasher
Proof_hash(p) == <<p.hash>>

\* impl Display for Proof
Proof_fmt(p) == HexEncode(p.hash)

\* ------------------------------------------------------------ Prover

\* Prover::new
Prover_new == [tape |-> <<>>]

\* Prover::verify over self.tape[1..]: the iterator starts past the first entry
Prover_verify_skip(prover) ==
  [tape |-> prover.tape, cursor |-> IF Len(prover.tape) > 0 THEN 1 ELSE 0]

\* Prover::verify: an iterator over the tape, at its first entry
Prover_verify(prover) == [tape |-> prover.tape, cursor |-> 0]

\* Prover::auth dropping the value, as Verifier::auth does
Prover_auth_bare(a) == Proof(None, hash(a))

\* impl Db for Prover: auth keeps the value in the Proof
Prover_auth(a) == Proof(Some(a), hash(a))

\* Prover::unauth pushing the Proof's hex commitment where the code pushes the
\* value's JSON
Prover_unauth_commitment(pr, p) ==
  IF p.value = None
  THEN [prover |-> pr, ret |-> None, err |-> "OpenOnUnauthenticatedProof"]
  ELSE [prover |-> [tape |-> Append(pr.tape, Proof_fmt(p))],
        ret |-> p.value, err |-> "none"]

\* Prover::unauth pushing before it unwraps the payload: on a Proof without
\* payload the tape gets the Proof's text, then the call panics
Prover_unauth_push_first(pr, p) ==
  IF p.value = None
  THEN [prover |-> [tape |-> Append(pr.tape, Proof_fmt(p))], ret |-> None,
        err |-> "OpenOnUnauthenticatedProof"]
  ELSE [prover |-> [tape |-> Append(pr.tape, to_string(Unwrap(p.value)))],
        ret |-> p.value, err |-> "none"]

\* impl Db for Prover: unauth.  p.value.unwrap() panics on a Proof without
\* payload, before the push.
Prover_unauth(pr, p) ==
  IF p.value = None
  THEN [prover |-> pr, ret |-> None, err |-> "OpenOnUnauthenticatedProof"]
  ELSE [prover |-> [tape |-> Append(pr.tape, to_string(Unwrap(p.value)))],
        ret |-> p.value, err |-> "none"]

\* ------------------------------------------------------------ Verifier

\* an iterator that yields the entry at the cursor and stays on it
Verifier_next_stuck(v) ==
  IF v.cursor < Len(v.tape)
  THEN [verifier |-> v, item |-> Some(v.tape[v.cursor + 1])]
  ELSE [verifier |-> v, item |-> None]

\* an iterator that starts over at the end of the tape (iter().cycle())
Verifier_next_wrap(v) ==
  IF v.cursor < Len(v.tape)
  THEN [verifier |-> [v EXCEPT !.cursor = @ + 1], item |-> Some(v.tape[v.cursor + 1])]
  ELSE IF Len(v.tape) > 0
  THEN [verifier |-> [v EXCEPT !.cursor = 1], item |-> Some(v.tape[1])]
  ELSE [verifier |-> v, item |-> None]

\* impl Iterator for Verifier: slice::Iter::next
Verifier_next(v) ==
  IF v.cursor < Len(v.tape)
  THEN [verifier |-> [v EXCEPT !.cursor = @ + 1], item |-> Some(v.tape[v.cursor + 1])]
  ELSE [verifier |-> v, item |-> None]

\* Verifier::auth hashing a serialization other than the Prover's (a line
\* feed after the JSON, here a space)
Verifier_auth_padded(a) == Proof(None, hash_str(to_string(a) \o <<" ">>))

\* Verifier::auth keeping the value, as Prover::auth does
Verifier_auth_keep(a) == Proof(Some(a), hash(a))

\* impl Db for Verifier: auth drops the value
Verifier_auth(a) == Proof(None, hash(a))

\* Verifier::unauth without the assert_eq! on the hash
Verifier_unauth_unchecked(A, v, p) ==
  The({
    IF n.item = None
    THEN [verifier |-> n.verifier, ret |-> None, err |-> "TapeExhausted"]
    ELSE The({
      IF r = None
      THEN [verifier |-> n.verifier, ret |-> None, err |-> "SerializationFailure"]
      ELSE [verifier |-> n.verifier, ret |-> r, err |-> "none"]
        : r \in {from_str(A, Unwrap(n.item))}})
        : n \in {Verifier_next(v)}})

\* Verifier::unauth with unwrap_or_default() on the end of the tape: an empty
\* string, then the checks as in the code but skipped on the empty string,
\* and a default value
Verifier_unauth_default(A, v, p) ==
  The({
    IF n.item = None
    THEN [verifier |-> n.verifier, ret |-> Some(IF A = "u32" THEN U32(0) ELSE Tip(0)),
          err |-> "none"]
    ELSE IF p.hash # hash_str(Unwrap(n.item))
    THEN [verifier |-> n.verifier, ret |-> None, err |-> "CommitmentMismatch"]
    ELSE The({
      IF r = None
      THEN [verifier |-> n.verifier, ret |-> None, err |-> "SerializationFailure"]
      ELSE [verifier |-> n.verifier, ret |-> r, err |-> "none"]
        : r \in {from_str(A, Unwrap(n.item))}})
        : n \in {Verifier_next(v)}})

\* Verifier::unauth that passes over one entry whose hash differs and takes
\* the entry after it
Verifier_unauth_skip(A, v, p) ==
  The({
    The({
      IF n.item = None
      THEN [verifier |-> n.verifier, ret |-> None, err |-> "TapeExhausted"]
      ELSE IF p.hash # hash_str(Unwrap(n.item))
      THEN [verifier |-> n.verifier, ret |-> None, err |-> "CommitmentMismatch"]
      ELSE The({
        IF r = None
        THEN [verifier |-> n.verifier, ret |-> None, err |-> "SerializationFailure"]
        ELSE [verifier |-> n.verifier, ret |-> r, err |-> "none"]
          : r \in {from_str(A, Unwrap(n.item))}})
          : n \in {IF m.item # None /\ p.hash # hash_str(Unwrap(m.item))
               THEN Verifier_next(m.verifier) ELSE m}}) : m \in {Verifier_next(v)}})

\* Verifier::unauth checking a peeked entry: on a hash that differs the entry
\* is not consumed
Verifier_unauth_peek(A, v, p) ==
  The({
    IF n.item = None
    THEN [verifier |-> n.verifier, ret |-> None, err |-> "TapeExhausted"]
    ELSE IF p.hash # hash_str(Unwrap(n.item))
    THEN [verifier |-> v, ret |-> None, err |-> "CommitmentMismatch"]
    ELSE The({
      IF r = None
      THEN [verifier |-> n.verifier, ret |-> None, err |-> "SerializationFailure"]
      ELSE [verifier |-> n.verifier, ret |-> r, err |-> "none"]
        : r \in {from_str(A, Unwrap(n.item))}})
      : n \in {Verifier_next(v)}})

\* impl Db for Verifier: unauth::<A>.  self.next().unwrap() panics at the end
\* of the tape; assert_eq! panics on a hash that differs; from_str(..).unwrap()
\* panics on text that is no A.
Verifier_unauth(A, v, p) ==
  The({
    IF n.item = None
    THEN [verifier |-> n.verifier, ret |-> None, err |-> "TapeExhausted"]
    ELSE IF p.hash # hash_str(Unwrap(n.item))
    THEN [verifier |-> n.verifier, ret |-> None, err |-> "CommitmentMismatch"]
    ELSE The({
      IF r = None
      THEN [verifier |-> n.verifier, ret |-> None, err |-> "SerializationFailure"]
      ELSE [verifier |-> n.verifier, ret |-> r, err |-> "none"]
        : r \in {from_str(A, Unwrap(n.item))}})
        : n \in {Verifier_next(v)}})

\* ------------------------------------------------------------ traversal
\* A traversal is client code of the Db capability (tests::bin, tests::at):
\* a sequence of auth and unauth calls.  The result of call k is item k.  A
\* Proof the traversal holds is named by a reference <<k, side>>: the Proof
\* returned by auth call k ("self"), or the left / right Proof of the Bin
\* returned by unauth call k ("l", "r").  Tree is neither Copy nor Clone, so
\* a Proof<Tree> is moved by its use: each reference is used at most once.

NoRef == <<0, "-">>

\* the labels of branch nodes (tests::go builds every Bin with 0)
Labels == {0}

AuthTipOp(n) == [op |-> "auth", tag |-> "Tip", n |-> n, l |-> NoRef, r |-> NoRef]

AuthBinOp(a, l, r) == [op |-> "auth", tag |-> "Bin", n |-> a, l |-> l, r |-> r]

UnauthOp(ref) == [op |-> "unauth", tag |-> "-", n |-> 0, l |-> ref, r |-> NoRef]

\* the references to the Proofs that the calls so far have put in the
\* traversal's hands
ProofRefs(scr, items) ==
  {<<k, "self">> : k \in {j \in 1..Len(scr) : scr[j].op = "auth"}}
  \cup {<<k, side>> : k \in {j \in 1..Len(scr) :
                               /\ scr[j].op = "unauth"
                               /\ items[j] # None
                               /\ Unwrap(items[j])[1] = "Bin"},
                      side \in {"l", "r"}}

\* the references already moved into a call
UsedRefs(scr) == ({scr[k].l : k \in 1..Len(scr)} \cup {scr[k].r : k \in 1..Len(scr)}) \ {NoRef}

\* the Proof a reference names
Resolve(items, ref) ==
  CASE ref[2] = "self" -> Unwrap(items[ref[1]])
    [] ref[2] = "l" -> Unwrap(items[ref[1]])[3]
    [] ref[2] = "r" -> Unwrap(items[ref[1]])[4]

\* the value an auth call is given: tip(n), or Tree::Bin(a, Box::new(l), Box::new(r))
BuildValue(items, o) ==
  IF o.tag = "Tip" THEN Tip(o.n)
  ELSE Bin(o.n, Resolve(items, o.l), Resolve(items, o.r))

\* the calls depending on the result of call u: u and every later call that
\* uses a reference into the result of a call of the set
Dependents(scr, u) ==
  LET RECURSIVE Close(_, _)
      Close(k, D) ==
        IF k > Len(scr) THEN D
        ELSE IF scr[k].l[1] \in D \/ scr[k].r[1] \in D THEN Close(k + 1, D \cup {k})
        ELSE Close(k + 1, D)
  IN Close(u + 1, {u})

\* the ids 1..n without those of D, in order
Without(n, D) ==
  LET RECURSIVE Keep(_)
      Keep(k) == IF k > n THEN <<>>
                 ELSE IF k \in D THEN Keep(k + 1) ELSE <<k>> \o Keep(k + 1)
  IN Keep(1)

\* the ids 1..n with i and i + 1 exchanged
Swapped(n, i) == [k \in 1..n |-> IF k = i THEN i + 1 ELSE IF k = i + 1 THEN i ELSE k]

\* ------------------------------------------------------------ tampering

\* a character that differs from c: the next digit, the upper-case form of a
\* hex letter, "x" for any other
FlipChar(c) ==
  IF Member(Digits, c) THEN Digits[(IndexIn(Digits, c) % 10) + 1]
  ELSE IF Member(HexLower, c) THEN HexUpper[IndexIn(HexLower, c)]
  ELSE "x"

FlipAt(e, j) == [e EXCEPT ![j] = FlipChar(e[j])]

\* a space before the closing brace
InsertSpace(e) == SubSeq(e, 1, Len(e) - 1) \o <<" ", e[Len(e)]>>

\* the strings an entry e is changed to: one character changed, within
\* FlipHead of the start or FlipTail of the end, or a space added
Tampers(e) ==
  {FlipAt(e, j) : j \in {k \in 1..Len(e) : k <= FlipHead \/ k > Len(e) - FlipTail}}
  \cup {InsertSpace(e)}

\* ------------------------------------------------------------ state

VARIABLES
  phase,     \* "prove", "verify", "done", "failed"; "api"; "proof"
  prover,    \* the Prover: [tape]
  script,    \* the calls the traversal made on the prover, in order
  pitems,    \* the result of each call on the prover
  verifier,  \* the Verifier: [tape, cursor] (slice::Iter over the tape)
  channel,   \* how the tape and the traversal reached the verifier
  order,     \* the ids of the calls the verifier side runs, in order
  vpos,      \* the next position of order to run
  vitems,    \* the result of each call on the verifier, by call id
  verr,      \* the failure of the last verifier call, or "none"
  call,      \* the last call made on the verifier, one call at a time
  lhs,       \* a Proof
  rhs,       \* a second Proof, of the same type
  out,       \* the last operation applied to lhs and rhs, and its result
  other,     \* a second Verifier over the prover's tape
  walk       \* a run of tests::go: the tree built, the path looked up, the results

sessionVars == <<prover, script, pitems, channel, order, vpos, vitems>>

proofVars == <<lhs, rhs, out>>

extraVars == <<other, walk>>

vars == <<phase, prover, script, pitems, verifier, channel, order, vpos, vitems, verr,
          call, lhs, rhs, out, other, walk>>

NoCall == [op |-> "none", A |-> "-", p |-> None, before |-> 0, ret |-> None]

NoOut == [op |-> "none", val |-> None]

NoVerifier == [tape |-> <<>>, cursor |-> 0]

NoWalk == [plain |-> <<>>, path |-> <<>>, stage |-> "none", root |-> None,
           res |-> None, res2 |-> None]

\* the state before anything is constructed
Blank ==
  /\ prover = Prover_new
  /\ script = <<>>
  /\ pitems = <<>>
  /\ verifier = [tape |-> <<>>, cursor |-> 0]
  /\ channel = [kind |-> "none", at |-> 0]
  /\ order = <<>>
  /\ vpos = 1
  /\ vitems = <<>>
  /\ verr = "none"
  /\ call = NoCall
  /\ lhs = Proof(None, <<>>)
  /\ rhs = Proof(None, <<>>)
  /\ out = NoOut
  /\ other = NoVerifier
  /\ walk = NoWalk

\* ------------------------------------------------------------ a session
\* tests::it_works in general: a traversal runs on a new Prover, then the
\* verifier side runs over the tape.

\* let mut p = Prover::new()
Init == phase = "prove" /\ Blank

Avail == ProofRefs(script, pitems) \ UsedRefs(script)

\* the traversal calls auth on the prover
ProverAuth ==
  /\ phase = "prove"
  /\ Len(script) < MaxOps
  /\ \E o \in {AuthTipOp(n) : n \in 1..MaxLeaf}
            \cup {AuthBinOp(a, lr[1], lr[2]) :
                    a \in Labels, lr \in {x \in Avail \X Avail : x[1] # x[2]}} :
     \E a \in {BuildValue(pitems, o)} :
       /\ script' = Append(script, o)
       /\ pitems' = Append(pitems, Some(Prover_auth(a)))
  /\ UNCHANGED <<phase, prover, verifier, channel, order, vpos, vitems, verr, call>>
  /\ UNCHANGED proofVars
  /\ UNCHANGED extraVars

\* the traversal calls unauth on the prover
ProverUnauth ==
  /\ phase = "prove"
  /\ Len(script) < MaxOps
  /\ \E ref \in Avail : \E res \in {Prover_unauth(prover, Resolve(pitems, ref))} :
       /\ script' = Append(script, UnauthOp(ref))
       /\ pitems' = Append(pitems, res.ret)
       /\ prover' = res.prover
       /\ phase' = IF res.err = "none" THEN "prove" ELSE "failed"
  /\ UNCHANGED <<verifier, channel, order, vpos, vitems, verr, call>>
  /\ UNCHANGED proofVars
  /\ UNCHANGED extraVars

\* the verifier side starts: verifier v over the tape it was handed, running
\* the calls ord
Start(v, kind, at, ord) ==
  /\ phase = "prove"
  /\ verifier' = v
  /\ channel' = [kind |-> kind, at |-> at]
  /\ order' = ord
  /\ vitems' = [k \in 1..Len(script) |-> None]
  /\ phase' = IF ord = <<>> THEN "done" ELSE "verify"
  /\ UNCHANGED <<prover, script, pitems, vpos, verr, call>>
  /\ UNCHANGED proofVars
  /\ UNCHANGED extraVars

Ids == [k \in 1..Len(script) |-> k]

\* it_works: p.verify(), and the same traversal on the verifier
Verify == Start(Prover_verify(prover), "exact", 0, Ids)

\* the verifier is built over the tape with entry i changed
VerifyTampered ==
  \E i \in 1..Len(prover.tape) : \E e \in Tampers(prover.tape[i]) :
    Start([tape |-> [prover.tape EXCEPT ![i] = e], cursor |-> 0], "tamper", i, Ids)

\* the verifier is built over the first k entries of the tape
VerifyPrefix ==
  \E k \in 0..(Len(prover.tape) - 1) :
    Start([tape |-> SubSeq(prover.tape, 1, k), cursor |-> 0], "prefix", k, Ids)

\* the verifier side leaves out unauth call u and what depends on its result
VerifyOmitting ==
  \E u \in {k \in 1..Len(script) : script[k].op = "unauth"} :
    Start(Prover_verify(prover), "omit", u, Without(Len(script), Dependents(script, u)))

\* the verifier side makes the adjacent unauth calls i and i + 1 in swapped order
VerifySwapped ==
  \E i \in {k \in 1..(Len(script) - 1) :
              /\ script[k].op = "unauth"
              /\ script[k + 1].op = "unauth"
              /\ script[k + 1].l[1] # k} :
    Start(Prover_verify(prover), "swap", i, Swapped(Len(script), i))

\* what follows a call of the verifier side: a panic ends the run
Advance(err) ==
  /\ vpos' = vpos + 1
  /\ verr' = err
  /\ phase' = IF err # "none" THEN "failed"
              ELSE IF vpos = Len(order) THEN "done" ELSE "verify"

\* the traversal calls auth on the verifier
VerifierAuth ==
  /\ phase = "verify"
  /\ script[order[vpos]].op = "auth"
  /\ \E a \in {BuildValue(vitems, script[order[vpos]])} :
       vitems' = [vitems EXCEPT ![order[vpos]] = Some(Verifier_auth(a))]
  /\ Advance("none")
  /\ UNCHANGED <<prover, script, pitems, verifier, channel, order, call>>
  /\ UNCHANGED proofVars
  /\ UNCHANGED extraVars

\* the traversal calls unauth on the verifier
VerifierUnauth ==
  /\ phase = "verify"
  /\ script[order[vpos]].op = "unauth"
  /\ \E res \in {Verifier_unauth("Tree", verifier, Resolve(vitems, script[order[vpos]].l))} :
       /\ verifier' = res.verifier
       /\ vitems' = [vitems EXCEPT ![order[vpos]] = res.ret]
       /\ Advance(res.err)
  /\ UNCHANGED <<prover, script, pitems, channel, order, call>>
  /\ UNCHANGED proofVars
  /\ UNCHANGED extraVars

Next ==
  \/ ProverAuth
  \/ ProverUnauth
  \/ Verify
  \/ VerifyTampered
  \/ VerifyPrefix
  \/ VerifyOmitting
  \/ VerifySwapped
  \/ VerifierAuth
  \/ VerifierUnauth

Spec == Init /\ [][Next]_vars

\* ------------------------------------------------------------ single calls
\* A Verifier over any tape, called with any Proof, one call at a time.  A
\* panic of a call leaves the Verifier as the call left it (the caller holds
\* it across catch_unwind).

\* the tapes hold at most MaxTape entries
MaxTape == 2

SomeBin == Bin(0, Verifier_auth(Tip(1)), Verifier_auth(Tip(2)))

\* the entries: JSON of Trees and of a u32, JSON with a space added, no JSON
ApiStrings ==
  {to_string(Tip(1)), to_string(Tip(2))}
  \cup {InsertSpace(to_string(Tip(1))), to_string(SomeBin), to_string(U32(1)), <<"x">>}

RECURSIVE TapesUpTo(_)
TapesUpTo(n) ==
  IF n = 0 THEN {<<>>}
  ELSE TapesUpTo(n - 1)
       \cup {Append(t, e) : t \in {u \in TapesUpTo(n - 1) : Len(u) = n - 1}, e \in ApiStrings}

\* the Proofs: the commitment of each entry, without payload (Verifier::auth,
\* deserialization) and, for a Tip, with it (Prover::auth)
ApiProofs ==
  {Proof(None, hash_str(e)) : e \in ApiStrings} \cup {Prover_auth(Tip(1))}

InitApi ==
  /\ phase = "api"
  /\ prover = Prover_new
  /\ script = <<>>
  /\ pitems = <<>>
  /\ verifier \in {[tape |-> t, cursor |-> 0] : t \in TapesUpTo(MaxTape)}
  /\ channel = [kind |-> "none", at |-> 0]
  /\ order = <<>>
  /\ vpos = 1
  /\ vitems = <<>>
  /\ verr = "none"
  /\ call = NoCall
  /\ lhs = Proof(None, <<>>)
  /\ rhs = Proof(None, <<>>)
  /\ out = NoOut
  /\ other = NoVerifier
  /\ walk = NoWalk

\* verifier.auth(a)
ApiAuth ==
  /\ phase = "api"
  /\ \E n \in 1..MaxLeaf :
       call' = [op |-> "auth", A |-> "Tree", p |-> None, before |-> verifier.cursor,
                ret |-> Some(Verifier_auth(Tip(n)))]
  /\ verr' = "none"
  /\ UNCHANGED <<phase, verifier>>
  /\ UNCHANGED sessionVars
  /\ UNCHANGED proofVars
  /\ UNCHANGED extraVars

\* verifier.unauth::<A>(p)
ApiUnauth ==
  /\ phase = "api"
  /\ \E A \in {"Tree", "u32"} : \E p \in ApiProofs :
     \E res \in {Verifier_unauth(A, verifier, p)} :
       /\ verifier' = res.verifier
       /\ verr' = res.err
       /\ call' = [op |-> "unauth", A |-> A, p |-> Some(p), before |-> verifier.cursor,
                   ret |-> res.ret]
  /\ UNCHANGED phase
  /\ UNCHANGED sessionVars
  /\ UNCHANGED proofVars
  /\ UNCHANGED extraVars

\* verifier.next(): Verifier is a public Iterator
ApiNext ==
  /\ phase = "api"
  /\ \E res \in {Verifier_next(verifier)} :
       /\ verifier' = res.verifier
       /\ call' = [op |-> "next", A |-> "-", p |-> None, before |-> verifier.cursor,
                   ret |-> res.item]
  /\ verr' = "none"
  /\ UNCHANGED phase
  /\ UNCHANGED sessionVars
  /\ UNCHANGED proofVars
  /\ UNCHANGED extraVars

NextApi ==
  \/ ApiAuth
  \/ ApiUnauth
  \/ ApiNext

SpecApi == InitApi /\ [][NextApi]_vars

\* ------------------------------------------------------------ two Proofs
\* The comparisons, the hashing and the serialization of Proofs, on every
\* pair of Proofs of one type that auth and deserialization produce.

\* some values of type A
Values(A) ==
  IF A = "u32" THEN {U32(n) : n \in 1..MaxLeaf}
  ELSE {Tip(n) : n \in 1..MaxLeaf} \cup {SomeBin}

\* the JSON text of a Proof whose commitment is HashLen zero bytes
ZeroText == Quote([i \in 1..(2 * HashLen) |-> "0"])

\* the Proofs of type A: from Prover::auth, from Verifier::auth and from
\* deserialization
Proofs(A) ==
  {Prover_auth(v) : v \in Values(A)}
  \cup {Verifier_auth(v) : v \in Values(A)}
  \cup {ProofDeserialize(ZeroText, 1)[1]}

InitProof ==
  /\ phase \in {"u32", "Tree"}
  /\ prover = Prover_new
  /\ script = <<>>
  /\ pitems = <<>>
  /\ verifier = [tape |-> <<>>, cursor |-> 0]
  /\ channel = [kind |-> "none", at |-> 0]
  /\ order = <<>>
  /\ vpos = 1
  /\ vitems = <<>>
  /\ verr = "none"
  /\ call = NoCall
  /\ lhs \in Proofs(phase)
  /\ rhs \in Proofs(phase)
  /\ out = NoOut
  /\ other = NoVerifier
  /\ walk = NoWalk

Apply(op, val) ==
  /\ out' = [op |-> op, val |-> val]
  /\ UNCHANGED <<phase, verifier, verr, call, lhs, rhs>>
  /\ UNCHANGED sessionVars
  /\ UNCHANGED extraVars

\* lhs == rhs
DoEq == Apply("eq", Proof_eq(lhs, rhs))

\* lhs.partial_cmp(&rhs)
DoPartialCmp == Apply("partial_cmp", Proof_partial_cmp(lhs, rhs))

\* lhs.cmp(&rhs): Proof<A> is Ord where A is Ord; Tree is not
DoCmp == phase = "u32" /\ Apply("cmp", Proof_cmp(lhs, rhs))

\* lhs.hash(state) and rhs.hash(state)
DoHash == Apply("hash", <<Proof_hash(lhs), Proof_hash(rhs)>>)

\* serde_json::to_string(&lhs), and serde_json::from_str of that text
DoSerde ==
  \E text \in {Quote(ProofSerialize(lhs))} :
    Apply("serde", <<text, ProofFromStr(text)>>)

\* prover.unauth(lhs) or prover.unauth(rhs), on a Prover that made up to
\* MaxTape unauth calls
DoUnauth ==
  /\ Len(prover.tape) < MaxTape
  /\ \E side \in {"lhs", "rhs"} :
     \E res \in {Prover_unauth(prover, IF side = "lhs" THEN lhs ELSE rhs)} :
       /\ prover' = res.prover
       /\ out' = [op |-> "unauth", val |-> <<side, res.ret, res.err>>]
  /\ UNCHANGED <<phase, verifier, verr, call, lhs, rhs>>
  /\ UNCHANGED <<script, pitems, channel, order, vpos, vitems>>
  /\ UNCHANGED extraVars

NextProof ==
  \/ DoEq
  \/ DoPartialCmp
  \/ DoCmp
  \/ DoHash
  \/ DoSerde
  \/ DoUnauth

SpecProof == InitProof /\ [][NextProof]_vars

\* ------------------------------------------------------------ properties
\* of a session (Spec)

\* a Proof as code that does not open it sees it
Erase(p) == Proof(None, p.hash)

\* a Tree as the traversal sees it
Shape(v) == IF v[1] = "Bin" THEN Bin(v[2], Erase(v[3]), Erase(v[4])) ELSE v

\* the result of call o as the traversal sees it
View(o, item) ==
  IF item = None THEN None
  ELSE IF o.op = "auth" THEN Some(Erase(Unwrap(item)))
  ELSE Some(Shape(Unwrap(item)))

\* how many of the first n calls of the verifier side are unauth calls
Opened(n) == Cardinality({j \in 1..n : script[order[j]].op = "unauth"})

\* the values the verifier side got are those the prover side got
SameValues ==
  \A j \in 1..(vpos - 1) :
    vitems[order[j]] # None =>
      View(script[order[j]], vitems[order[j]]) = View(script[order[j]], pitems[order[j]])

\* C1: the same traversal run on the Verifier over the unmodified tape makes
\* no failing call, gets from every call what the prover side got, reads with
\* its j-th unauth the j-th entry of the tape, and ends with the whole tape
\* consumed.
C1_Equivalence ==
  channel.kind = "exact" =>
    /\ phase # "failed"
    /\ verr = "none"
    /\ verifier.tape = prover.tape
    /\ verifier.cursor = Opened(vpos - 1)
    /\ SameValues
    /\ \A j \in 1..(vpos - 1) :
         /\ vitems[order[j]] # None
         /\ script[order[j]].op = "unauth" =>
              vitems[order[j]] = from_str("Tree", prover.tape[Opened(j)])
    /\ phase = "done" => vpos - 1 = Len(script) /\ verifier.cursor = Len(prover.tape)

C1_Witness ==
  /\ channel.kind = "exact"
  /\ phase = "done"
  /\ Len(prover.tape) >= 2

\* C2: with entry i of the tape changed, the run never completes; it fails
\* with CommitmentMismatch at the unauth call that consumes entry i, which
\* returns no value, and every value returned before is the prover's.
C2_TamperDetected ==
  channel.kind = "tamper" =>
    /\ phase # "done"
    /\ SameValues
    /\ phase = "verify" => verifier.cursor < channel.at /\ verr = "none"
    /\ phase = "failed" =>
         /\ verr = "CommitmentMismatch"
         /\ script[order[vpos - 1]].op = "unauth"
         /\ vitems[order[vpos - 1]] = None
         /\ Opened(vpos - 1) = channel.at
         /\ verifier.cursor = channel.at

C2_Witness ==
  /\ channel.kind = "tamper"
  /\ phase = "failed"
  /\ channel.at = 2
  /\ from_str("Tree", verifier.tape[2]) # None

\* C3: over the first k entries of the tape, the first k unauth calls return
\* the prover's values and the (k + 1)-th fails with TapeExhausted and
\* returns no value; the run never completes.
C3_Truncation ==
  channel.kind = "prefix" =>
    /\ phase # "done"
    /\ SameValues
    /\ phase = "verify" =>
         /\ verr = "none"
         /\ Opened(vpos - 1) <= channel.at
         /\ verifier.cursor = Opened(vpos - 1)
         /\ \A j \in 1..(vpos - 1) : vitems[order[j]] # None
    /\ phase = "failed" =>
         /\ verr = "TapeExhausted"
         /\ script[order[vpos - 1]].op = "unauth"
         /\ vitems[order[vpos - 1]] = None
         /\ Opened(vpos - 1) = channel.at + 1
         /\ \A j \in 1..(vpos - 2) : vitems[order[j]] # None

C3_Witness ==
  /\ channel.kind = "prefix"
  /\ phase = "failed"
  /\ channel.at >= 1
  /\ verr = "TapeExhausted"

\* the ids of the unauth calls of the verifier side, in its order
OpenedIds ==
  LET RECURSIVE From(_)
      From(j) == IF j > Len(order) THEN <<>>
                 ELSE IF script[order[j]].op = "unauth" THEN <<order[j]>> \o From(j + 1)
                 ELSE From(j + 1)
  IN From(1)

\* the commitments the verifier side opens, in its order
Wanted == [i \in 1..Len(OpenedIds) |-> Resolve(pitems, script[OpenedIds[i]].l).hash]

\* the commitments opened are the hashes of the first entries of the tape
Accepted ==
  /\ Len(Wanted) <= Len(verifier.tape)
  /\ \A i \in 1..Len(Wanted) : hash_str(verifier.tape[i]) = Wanted[i]

\* C5 as stated: a verifier side that makes fewer unauth calls than the
\* prover side, or makes them in another order, does not complete.
C5_AnyDeviationFails == channel.kind \in {"omit", "swap"} => phase # "done"

\* C5: a run of the verifier side fails exactly when the commitments it opens,
\* in its order, are not the hashes of the first entries of the tape: with
\* more unauth calls than entries, or a commitment that differs from the
\* hash of the entry at its position.  A run with fewer unauth calls, or with
\* two References of equal commitment exchanged, completes.
C5_ReplayOutcome ==
  /\ phase = "done" => Accepted
  /\ phase = "failed" => ~Accepted
  /\ phase = "verify" =>
       \A i \in {verifier.cursor} \ {0} : hash_str(verifier.tape[i]) = Wanted[i]

C5_Witness ==
  /\ channel.kind = "omit"
  /\ phase = "done"
  /\ verifier.cursor < Len(verifier.tape)

\* one step of the prover's tape
TapeStep ==
  /\ prover'.tape # prover.tape =>
       /\ Len(script') = Len(script) + 1
       /\ script'[Len(script')].op = "unauth"
       /\ prover'.tape = Append(prover.tape, to_string(Unwrap(pitems'[Len(script')])))
  /\ (Len(script') = Len(script) + 1 /\ script'[Len(script')].op = "unauth") =>
       Len(prover'.tape) = Len(prover.tape) + 1

\* C6: the prover's tape starts empty; each unauth on the prover appends to
\* it the serialization of the value it returns, and nothing else (auth,
\* building the verifier, the verifier's calls) changes it.
C6_AppendOnly == prover.tape = <<>> /\ [][TapeStep]_vars

C6_Witness ==
  /\ phase = "prove"
  /\ Len(prover.tape) >= 1
  /\ script[Len(script)].op = "auth"

\* ------------------------------------------------------------ properties
\* of single calls on a Verifier (SpecApi)

\* C4: on any tape and for any Proof p, Verifier::unauth(p) returns a value
\* only if an entry is left and the hash of the entry at the cursor is p's
\* commitment, and the value is the parse of that entry; at the end of the
\* tape or on a hash that differs the call fails and returns nothing.
C4_UnauthSound ==
  call.op = "unauth" =>
    /\ call.ret # None =>
         /\ call.before < Len(verifier.tape)
         /\ hash_str(verifier.tape[call.before + 1]) = Unwrap(call.p).hash
         /\ call.ret = from_str(call.A, verifier.tape[call.before + 1])
         /\ verr = "none"
    /\ call.before >= Len(verifier.tape) => call.ret = None /\ verr = "TapeExhausted"
    /\ (/\ call.before < Len(verifier.tape)
        /\ hash_str(verifier.tape[call.before + 1]) # Unwrap(call.p).hash) =>
         call.ret = None /\ verr = "CommitmentMismatch"

C4_Witness ==
  /\ call.op = "unauth"
  /\ call.ret # None
  /\ call.before = 1
  /\ Unwrap(call.p).value = None

\* the cursor after a call made with the cursor at c, over n entries
Bump(c, n) == IF c < n THEN c + 1 ELSE c

\* C7 as stated: every unauth call advances the cursor by exactly one entry,
\* and no other operation on the verifier changes it.
C7_OnlyUnauthByOne ==
  [][/\ call'.op = "unauth" => verifier'.cursor = verifier.cursor + 1
     /\ call'.op # "unauth" => verifier'.cursor = verifier.cursor]_vars

\* C7: the cursor starts at zero, never decreases and never passes the end of
\* the tape.  An unauth call advances it by exactly one entry when an entry
\* is left, whether the call then returns or fails on the hash or the parse,
\* and leaves it where it is at the end of the tape; auth leaves it unchanged;
\* Iterator::next advances it by one entry when an entry is left.
C7_CursorMonotonic ==
  /\ verifier.cursor = 0
  /\ [][/\ verifier'.tape = verifier.tape
        /\ verifier'.cursor >= verifier.cursor
        /\ verifier'.cursor <= Len(verifier.tape)
        /\ call'.op = "unauth" =>
             verifier'.cursor = Bump(verifier.cursor, Len(verifier.tape))
        /\ call'.op = "auth" => verifier'.cursor = verifier.cursor
        /\ call'.op = "next" =>
             verifier'.cursor = Bump(verifier.cursor, Len(verifier.tape))]_vars

C7_Witness ==
  /\ call.op = "unauth"
  /\ verr = "TapeExhausted"
  /\ Len(verifier.tape) >= 1
  /\ call.before = Len(verifier.tape)
  /\ verifier.cursor = call.before

\* ------------------------------------------------------------ properties
\* of Proofs (SpecProof)

\* C8: two Proofs compare equal exactly when their commitments are equal,
\* with or without payloads; the Proof of Prover::auth(v) equals the Proof of
\* Verifier::auth(v).
C8_EqByCommitment ==
  /\ out.op = "eq" => out.val = (lhs.hash = rhs.hash)
  /\ (/\ out.op = "eq"
      /\ \E v \in Values(phase) : lhs = Prover_auth(v) /\ rhs = Verifier_auth(v)) => out.val

C8_Witness ==
  /\ out.op = "eq"
  /\ lhs.value # None
  /\ rhs.value = None
  /\ out.val

\* C9: partial_cmp, cmp and hash of two Proofs are determined by their
\* commitments alone: cmp is the order of the commitments and agrees with
\* partial_cmp, and equal commitments feed the Hasher the same.
C9_OrderByCommitment ==
  /\ out.op = "partial_cmp" => out.val = Some(CmpHash(lhs.hash, rhs.hash))
  /\ out.op = "cmp" =>
       /\ out.val = CmpHash(lhs.hash, rhs.hash)
       /\ Some(out.val) = Proof_partial_cmp(lhs, rhs)
       /\ lhs.hash = rhs.hash => out.val = "Equal"
  /\ (out.op = "hash" /\ lhs.hash = rhs.hash) => out.val[1] = out.val[2]

\* text is the lowercase hex text of bytes
IsLowerHexOf(text, bytes) ==
  /\ Len(text) = 2 * Len(bytes)
  /\ \A i \in 1..Len(text) : Member(HexLower, text[i])
  /\ \A i \in 1..Len(bytes) :
       16 * (IndexIn(HexLower, text[2 * i - 1]) - 1) + IndexIn(HexLower, text[2 * i]) - 1
         = bytes[i]

\* C10: a Proof, with or without payload, serializes to the JSON string of
\* the lowercase hex text of its commitment; deserializing that text gives a
\* Proof with the same commitment and no payload, equal to the original.
C10_SerdeRoundTrip ==
  out.op = "serde" =>
    /\ Len(out.val[1]) = 2 * HashLen + 2
    /\ out.val[1] = Quote(SubSeq(out.val[1], 2, Len(out.val[1]) - 1))
    /\ IsLowerHexOf(SubSeq(out.val[1], 2, Len(out.val[1]) - 1), lhs.hash)
    /\ out.val[2] = Some(Proof(None, lhs.hash))
    /\ Proof_eq(Unwrap(out.val[2]), lhs)

C10_Witness ==
  /\ out.op = "serde"
  /\ lhs.value # None
  /\ out.val[2] # None
  /\ Unwrap(out.val[2]).value = None

\* ------------------------------------------------------------ properties
\* of auth in a session (Spec)
\* The verifier side changes neither the prover nor the record of its calls:
\* what is stated of the prover's calls is stated while the prover side runs.

\* the commitment of a value: the hash of its serialization
Commit(v) == hash_str(to_string(v))

\* C11: Prover::auth(v) returns a Proof with payload v and commitment
\* Commit(v); Verifier::auth(v) returns a Proof without payload and with
\* commitment Commit(v), for a leaf the prover's commitment of the same leaf;
\* two auth calls on equal values give equal commitments.  (A call of the
\* verifier side is looked at in the state that follows it.)
C11_AuthBothSides ==
  /\ \A k \in 1..Len(script) :
       (phase = "prove" /\ script[k].op = "auth") =>
         /\ Unwrap(pitems[k]).value = Some(BuildValue(pitems, script[k]))
         /\ Unwrap(pitems[k]).hash = Commit(BuildValue(pitems, script[k]))
  /\ \A j \in {vpos - 1} \ {0} :
       script[order[j]].op = "auth" =>
         /\ Unwrap(vitems[order[j]]).value = None
         /\ Unwrap(vitems[order[j]]).hash = Commit(BuildValue(vitems, script[order[j]]))
         /\ script[order[j]].tag = "Tip" =>
              Unwrap(vitems[order[j]]).hash = Unwrap(pitems[order[j]]).hash
  /\ \A j, k \in 1..Len(script) :
       (/\ phase = "prove"
        /\ script[j].op = "auth"
        /\ script[k].op = "auth"
        /\ BuildValue(pitems, script[j]) = BuildValue(pitems, script[k])) =>
         Unwrap(pitems[j]).hash = Unwrap(pitems[k]).hash

C11_Witness ==
  /\ phase = "done"
  /\ \E j, k \in 1..Len(script) :
       /\ j < k
       /\ script[j].op = "auth" /\ script[j].tag = "Tip"
       /\ script[k].op = "auth" /\ script[k].tag = "Tip"
       /\ script[j].n = script[k].n
       /\ vitems[j] # None /\ vitems[k] # None

\* ------------------------------------------------------------ properties
\* of Prover::unauth on any Proof (SpecProof)

\* the Proof an unauth call recorded in o was given
Given(o) == IF o.val[1] = "lhs" THEN lhs ELSE rhs

\* C12: Prover::unauth on a Proof without payload (from Verifier::auth or
\* from deserialization) fails, returns no value and leaves the tape as it
\* was.
C12_NoPayloadFails ==
  [][(out'.op = "unauth" /\ Given(out').value = None) =>
       /\ out'.val[2] = None
       /\ out'.val[3] = "OpenOnUnauthenticatedProof"
       /\ prover'.tape = prover.tape]_vars

C12_Witness ==
  /\ out.op = "unauth"
  /\ Given(out).value = None
  /\ out.val[3] = "OpenOnUnauthenticatedProof"
  /\ Len(prover.tape) >= 1

\* ------------------------------------------------------------ two Verifiers
\* A Prover whose tape grows by unauth calls, and up to two Verifiers made by
\* Prover::verify.  A Verifier borrows the Prover (&self), so the Prover's
\* unauth (&mut self) runs only while no Verifier is alive.  phase says which
\* Verifiers are alive: "grow" (none), "v" (verifier), "o" (other), "vo".

\* the Proofs the Verifiers are called with
VerifyProofs == {Verifier_auth(v) : v \in Values("Tree")}

InitVerify == phase = "grow" /\ Blank

Called(op) == call' = [NoCall EXCEPT !.op = op]

\* prover.unauth(prover.auth(v))
GrowTape ==
  /\ phase = "grow"
  /\ Len(prover.tape) < MaxTape
  /\ \E v \in Values("Tree") : \E res \in {Prover_unauth(prover, Prover_auth(v))} :
       prover' = res.prover
  /\ Called("prover.unauth")
  /\ UNCHANGED <<phase, script, pitems, verifier, channel, order, vpos, vitems, verr>>
  /\ UNCHANGED proofVars
  /\ UNCHANGED extraVars

\* let mut v = prover.verify()
NewVerifier ==
  /\ phase \in {"grow", "v", "o", "vo"}
  /\ verifier' = Prover_verify(prover)
  /\ phase' = IF phase \in {"o", "vo"} THEN "vo" ELSE "v"
  /\ Called("verify")
  /\ verr' = "none"
  /\ UNCHANGED sessionVars
  /\ UNCHANGED proofVars
  /\ UNCHANGED extraVars

\* let mut o = prover.verify()
NewOther ==
  /\ phase \in {"grow", "v", "o", "vo"}
  /\ other' = Prover_verify(prover)
  /\ phase' = IF phase \in {"v", "vo"} THEN "vo" ELSE "o"
  /\ Called("other.verify")
  /\ verr' = "none"
  /\ UNCHANGED <<verifier, walk>>
  /\ UNCHANGED sessionVars
  /\ UNCHANGED proofVars

\* v.unauth(p)
UnauthVerifier ==
  /\ phase \in {"v", "vo"}
  /\ \E p \in VerifyProofs : \E res \in {Verifier_unauth("Tree", verifier, p)} :
       /\ verifier' = res.verifier
       /\ verr' = res.err
       /\ call' = [op |-> "unauth", A |-> "Tree", p |-> Some(p),
                   before |-> verifier.cursor, ret |-> res.ret]
  /\ UNCHANGED phase
  /\ UNCHANGED sessionVars
  /\ UNCHANGED proofVars
  /\ UNCHANGED extraVars

\* o.unauth(p)
UnauthOther ==
  /\ phase \in {"o", "vo"}
  /\ \E p \in VerifyProofs : \E res \in {Verifier_unauth("Tree", other, p)} :
       /\ other' = res.verifier
       /\ verr' = res.err
       /\ call' = [op |-> "other.unauth", A |-> "Tree", p |-> Some(p),
                   before |-> other.cursor, ret |-> res.ret]
  /\ UNCHANGED <<phase, verifier, walk>>
  /\ UNCHANGED sessionVars
  /\ UNCHANGED proofVars

\* the Verifiers go out of scope
DropVerifiers ==
  /\ phase \in {"v", "o", "vo"}
  /\ phase' = "grow"
  /\ verifier' = NoVerifier
  /\ other' = NoVerifier
  /\ Called("drop")
  /\ verr' = "none"
  /\ UNCHANGED walk
  /\ UNCHANGED sessionVars
  /\ UNCHANGED proofVars

NextVerify ==
  \/ GrowTape
  \/ NewVerifier
  \/ NewOther
  \/ UnauthVerifier
  \/ UnauthOther
  \/ DropVerifiers

SpecVerify == InitVerify /\ [][NextVerify]_vars

\* a Verifier new over tape t
Fresh(t) == [tape |-> t, cursor |-> 0]

\* an unauth call taking Verifier v to w: the tape stays, an entry is
\* consumed at most once, and at the end of the tape the call fails
UnauthStep(v, w) ==
  /\ w.tape = v.tape
  /\ w.cursor >= v.cursor
  /\ call'.ret # None => w.cursor = v.cursor + 1
  /\ v.cursor = Len(v.tape) =>
       /\ verr' = "TapeExhausted"
       /\ call'.ret = None
       /\ w = v

\* C13: each Prover::verify() gives a Verifier at the first entry of the
\* prover's tape as it is at that moment; an unauth on one Verifier changes
\* neither the other Verifier nor the prover's tape; a Verifier at the end of
\* its tape fails every further unauth with TapeExhausted and stays there,
\* and no call moves a cursor back.
C13_FreshVerifier ==
  [][/\ call'.op = "verify" =>
          verifier' = Fresh(prover.tape) /\ other' = other /\ prover' = prover
     /\ call'.op = "other.verify" =>
          other' = Fresh(prover.tape) /\ verifier' = verifier /\ prover' = prover
     /\ call'.op = "unauth" =>
          UnauthStep(verifier, verifier') /\ other' = other /\ prover' = prover
     /\ call'.op = "other.unauth" =>
          UnauthStep(other, other') /\ verifier' = verifier /\ prover' = prover]_vars

C13_Witness ==
  /\ phase = "vo"
  /\ Len(prover.tape) = 2
  /\ call.op = "unauth"
  /\ verr = "TapeExhausted"
  /\ verifier = [tape |-> prover.tape, cursor |-> 2]
  /\ other = [tape |-> prover.tape, cursor |-> 1]

\* ------------------------------------------------------------ tests
\* tests::bin, tests::at and tests::go, generic in the Db D ("Prover" or
\* "Verifier").  A Path is a sequence of "L" and "R"; an Option<u32> result is
\* None or Some(n).

\* db.auth(a)
Db_auth(D, a) == IF D = "Prover" THEN Prover_auth(a) ELSE Verifier_auth(a)

\* db.unauth(p): the Db after the call, what it returns, how it fails
Db_unauth(D, db, p) ==
  IF D = "Prover"
  THEN The({[db |-> r.prover, ret |-> r.ret, err |-> r.err] : r \in {Prover_unauth(db, p)}})
  ELSE The({[db |-> r.verifier, ret |-> r.ret, err |-> r.err]
              : r \in {Verifier_unauth("Tree", db, p)}})

\* tests::tip
tip(u) == Tip(u)

\* tests::bin: auth of both subtrees (auth leaves the Db as it is)
bin(D, a, l, r) == Bin(a, Db_auth(D, l), Db_auth(D, r))

\* at going right on L and left on R
RECURSIVE at_mirror(_, _, _, _)
at_mirror(D, db, t, p) ==
  IF p = <<>> THEN [db |-> db, ret |-> Some(t[2]), err |-> "none"]
  ELSE IF t[1] = "Bin"
  THEN The({
    IF r.err # "none" THEN [db |-> r.db, ret |-> None, err |-> r.err]
    ELSE at_mirror(D, r.db, Unwrap(r.ret), Tail(p))
      : r \in {Db_unauth(D, db, IF Head(p) = "L" THEN t[4] ELSE t[3])}})
  ELSE [db |-> db, ret |-> None, err |-> "none"]

\* at returning the leaf it stopped at where the code returns None
RECURSIVE at_deepest(_, _, _, _)
at_deepest(D, db, t, p) ==
  IF p = <<>> THEN [db |-> db, ret |-> Some(t[2]), err |-> "none"]
  ELSE IF t[1] = "Bin"
  THEN The({
    IF r.err # "none" THEN [db |-> r.db, ret |-> None, err |-> r.err]
    ELSE at_deepest(D, r.db, Unwrap(r.ret), Tail(p))
      : r \in {Db_unauth(D, db, IF Head(p) = "L" THEN t[3] ELSE t[4])}})
  ELSE [db |-> db, ret |-> Some(t[2]), err |-> "none"]

\* tests::at: for each element of the path, at a Bin the child on that side
\* is opened by db.unauth, at a Tip the function returns None; after the
\* path, Some of the label or leaf value of the node
RECURSIVE at(_, _, _, _)
at(D, db, t, p) ==
  IF p = <<>> THEN [db |-> db, ret |-> Some(t[2]), err |-> "none"]
  ELSE IF t[1] = "Bin"
  THEN The({
    IF r.err # "none" THEN [db |-> r.db, ret |-> None, err |-> r.err]
    ELSE at(D, r.db, Unwrap(r.ret), Tail(p))
      : r \in {Db_unauth(D, db, IF Head(p) = "L" THEN t[3] ELSE t[4])}})
  ELSE [db |-> db, ret |-> None, err |-> "none"]

\* a tree before it is authenticated: <<"tip", n>> or <<"bin", a, l, r>>
PlainTip(n) == <<"tip", n>>

PlainBin(a, l, r) == <<"bin", a, l, r>>

\* the tree of tests::go: bin(0, bin(0, tip(1), tip(2)), tip(2))
TestPlain == PlainBin(0, PlainBin(0, PlainTip(1), PlainTip(2)), PlainTip(2))

\* the first lines of tests::go for any tree: tip and bin calls, inside out
RECURSIVE build(_, _)
build(D, plain) ==
  IF plain[1] = "tip" THEN tip(plain[2])
  ELSE bin(D, plain[2], build(D, plain[3]), build(D, plain[4]))

\* the trees: leaves, and branch nodes of up to the two levels of the test's
PlainLeaves == {PlainTip(n) : n \in 1..MaxLeaf}

PlainOver(S) == PlainLeaves \cup {PlainBin(a, l, r) : a \in Labels, l \in S, r \in S}

PlainTrees == PlainOver(PlainOver(PlainLeaves))

\* the paths hold at most MaxPath steps
MaxPath == 2

RECURSIVE PathsUpTo(_)
PathsUpTo(n) ==
  IF n = 0 THEN {<<>>}
  ELSE PathsUpTo(n - 1)
       \cup {Append(q, d) : q \in {u \in PathsUpTo(n - 1) : Len(u) = n - 1}, d \in {"L", "R"}}

InitWalk ==
  /\ phase = "walk"
  /\ prover = Prover_new
  /\ script = <<>>
  /\ pitems = <<>>
  /\ verifier = NoVerifier
  /\ channel = [kind |-> "none", at |-> 0]
  /\ order = <<>>
  /\ vpos = 1
  /\ vitems = <<>>
  /\ verr = "none"
  /\ call = NoCall
  /\ lhs = Proof(None, <<>>)
  /\ rhs = Proof(None, <<>>)
  /\ out = NoOut
  /\ other = NoVerifier
  /\ walk \in {[NoWalk EXCEPT !.plain = t, !.path = q, !.stage = "new"] :
                 t \in PlainTrees, q \in PathsUpTo(MaxPath)}

WalkFrame ==
  /\ UNCHANGED <<phase, call, other>>
  /\ UNCHANGED sessionVars
  /\ UNCHANGED proofVars

\* go(&mut p), its first part: the tree is built on the prover
WalkBuild ==
  /\ walk.stage = "new"
  /\ walk' = [walk EXCEPT !.stage = "built", !.root = Some(build("Prover", walk.plain))]
  /\ UNCHANGED <<verifier, verr>>
  /\ WalkFrame

\* go(&mut p), its last line: at on the prover
WalkAt ==
  /\ walk.stage = "built"
  /\ \E r \in {at("Prover", prover, Unwrap(walk.root), walk.path)} :
       /\ prover' = r.db
       /\ walk' = [walk EXCEPT !.stage = "looked", !.res = Some(<<r.ret, r.err>>)]
  /\ UNCHANGED <<phase, call, other, verifier, verr>>
  /\ UNCHANGED <<script, pitems, channel, order, vpos, vitems>>
  /\ UNCHANGED proofVars

\* let mut v = p.verify()
WalkVerify ==
  /\ walk.stage = "looked"
  /\ verifier' = Prover_verify(prover)
  /\ walk' = [walk EXCEPT !.stage = "verify"]
  /\ UNCHANGED verr
  /\ WalkFrame

\* go(&mut v), its first part: the tree is built on the verifier
WalkBuildV ==
  /\ walk.stage = "verify"
  /\ walk' = [walk EXCEPT !.stage = "vbuilt", !.root = Some(build("Verifier", walk.plain))]
  /\ UNCHANGED <<verifier, verr>>
  /\ WalkFrame

\* go(&mut v), its last line: at on the verifier
WalkAtV ==
  /\ walk.stage = "vbuilt"
  /\ \E r \in {at("Verifier", verifier, Unwrap(walk.root), walk.path)} :
       /\ verifier' = r.db
       /\ verr' = r.err
       /\ walk' = [walk EXCEPT !.stage = "done", !.res2 = Some(<<r.ret, r.err>>)]
  /\ WalkFrame

NextWalk ==
  \/ WalkBuild
  \/ WalkAt
  \/ WalkVerify
  \/ WalkBuildV
  \/ WalkAtV

SpecWalk == InitWalk /\ [][NextWalk]_vars

\* ------------------------------------------------------------ properties
\* of a path lookup (SpecWalk)

\* the run looks up path q in the tree of the test and is over
TestRun(q) == walk.plain = TestPlain /\ walk.path = q /\ walk.stage = "done"

\* both sides returned r, without failure
Both(r) == walk.res = Some(<<r, "none">>) /\ walk.res2 = Some(<<r, "none">>)

\* C14 as stated: on the tree of the test, [Left, Right] returns 2 on the
\* prover and on the verifier, and [Right] returns absence on both.
C14_RightIsAbsent ==
  /\ TestRun(<<"L", "R">>) => Both(Some(2))
  /\ TestRun(<<"R">>) => Both(None)

\* C14: on the tree of the test, [Left, Right] returns 2 on the prover and
\* on the verifier replaying the prover's tape; [Right] ends at the leaf 2
\* and returns 2 on both sides; [Right, Left] runs into that leaf with a
\* step left and returns absence on both sides.
C14_Scenario ==
  /\ TestRun(<<"L", "R">>) => Both(Some(2))
  /\ TestRun(<<"R">>) => Both(Some(2))
  /\ TestRun(<<"R", "L">>) => Both(None)

C14_Witness == TestRun(<<"R">>) /\ Both(Some(2)) /\ verifier.cursor = 1

\* the child of the branch node t on side d
PlainChild(t, d) == IF d = "L" THEN t[3] ELSE t[4]

\* how many steps of path q are taken at branch nodes of t
RECURSIVE BranchSteps(_, _)
BranchSteps(t, q) ==
  IF q = <<>> \/ t[1] = "tip" THEN 0
  ELSE 1 + BranchSteps(PlainChild(t, Head(q)), Tail(q))

\* the node of t where these steps end
RECURSIVE NodeReached(_, _)
NodeReached(t, q) ==
  IF q = <<>> \/ t[1] = "tip" THEN t
  ELSE NodeReached(PlainChild(t, Head(q)), Tail(q))

\* C15: at returns the label or leaf value of the node reached when the
\* path is exhausted, and absence exactly when a leaf is reached with a step
\* left; it makes one unauth call per step taken at a branch node, so the
\* prover's tape gets that many entries and the verifier's cursor moves that
\* far; building the tree (auth calls) adds no entry.
C15_PathLookup ==
  /\ walk.stage = "built" => prover.tape = <<>>
  /\ walk.stage \in {"looked", "verify", "vbuilt", "done"} =>
       /\ Len(prover.tape) = BranchSteps(walk.plain, walk.path)
       /\ walk.res[1][2] = "none"
       /\ walk.res[1][1] = None <=> BranchSteps(walk.plain, walk.path) < Len(walk.path)
       /\ walk.res[1][1] # None =>
            walk.res[1][1] = Some(NodeReached(walk.plain, walk.path)[2])
  /\ walk.stage = "vbuilt" => verifier.cursor = 0
  /\ walk.stage = "done" =>
       /\ walk.res2 = walk.res
       /\ verifier.cursor = BranchSteps(walk.plain, walk.path)

C15_Witness ==
  /\ walk.stage = "done"
  /\ Len(walk.path) = 2
  /\ Len(prover.tape) = 1
  /\ walk.res2 = Some(<<None, "none">>)

\* ------------------------------------------------------------ properties
\* of the prover's side of a session (Spec)

\* the Proof p carries a payload, and so does every Proof inside it
RECURSIVE Opens(_)
Opens(p) ==
  /\ p.value # None
  /\ Unwrap(p.value)[1] = "Bin" => Opens(Unwrap(p.value)[3]) /\ Opens(Unwrap(p.value)[4])

\* C16: with one Prover and Proofs from its auth only, every Proof the
\* traversal holds or can reach by unauth carries a payload, and no unauth on
\* the prover fails.
C16_ProverProofsOpen ==
  /\ channel.kind = "none" => phase = "prove"
  /\ \A k \in 1..Len(script) : pitems[k] # None
  /\ \A ref \in ProofRefs(script, pitems) : Opens(Resolve(pitems, ref))

C16_Witness ==
  /\ phase = "prove"
  /\ \E k \in 1..Len(script) :
       /\ script[k].op = "unauth"
       /\ Unwrap(pitems[k])[1] = "Bin"
       /\ <<k, "l">> \in Avail

\* C17: the commitment of a value with nested Proofs is the commitment of
\* the value with the payloads of the nested Proofs removed; the structure
\* built on the Prover and the same structure built on the Verifier by the
\* same auth calls have equal commitments at every level.
C17_CommitmentIgnoresPayloads ==
  /\ \A k \in 1..Len(script) :
       (phase = "prove" /\ script[k].op = "auth") =>
         Unwrap(pitems[k]).hash = Commit(Shape(BuildValue(pitems, script[k])))
  /\ channel.kind = "exact" =>
       \A j \in 1..(vpos - 1) :
         script[order[j]].op = "auth" =>
           Unwrap(vitems[order[j]]).hash = Unwrap(pitems[order[j]]).hash

C17_Witness ==
  /\ channel.kind = "exact"
  /\ \E j \in 1..(vpos - 1) :
       /\ script[order[j]].op = "auth"
       /\ script[order[j]].tag = "Bin"
       /\ BuildValue(pitems, script[order[j]])[3].value # None
       /\ BuildValue(vitems, script[order[j]])[3].value = None
       /\ vitems[order[j]] # None

\* the ids of the unauth calls on the prover, in call order
UnauthIds ==
  LET RECURSIVE From(_)
      From(k) == IF k > Len(script) THEN <<>>
                 ELSE IF script[k].op = "unauth" THEN <<k>> \o From(k + 1)
                 ELSE From(k + 1)
  IN From(1)

\* the text of a tape entry that shows of value v its numbers and, of each
\* Proof in it, the hex of the commitment
Disclosed(v) ==
  IF v[1] = "Tip" THEN <<"{", "\"", "T", "i", "p", "\"", ":">> \o Decimal(v[2]) \o <<"}">>
  ELSE <<"{", "\"", "B", "i", "n", "\"", ":", "[">> \o Decimal(v[2])
       \o <<",">> \o Quote(HexEncode(v[3].hash))
       \o <<",">> \o Quote(HexEncode(v[4].hash)) \o <<"]", "}">>

\* C18: after any calls on the prover the tape has one entry per unauth
\* call, in call order; the entry shows the opened value's own numbers and
\* each nested Proof as the hex of its commitment, nothing of the payload of
\* a nested Proof: read back, it gives the value with these payloads absent.
C18_DisclosureByOpening ==
  /\ Len(prover.tape) = Len(UnauthIds)
  /\ \A i \in 1..Len(UnauthIds) :
       phase = "prove" =>
         /\ prover.tape[i] = Disclosed(Unwrap(pitems[UnauthIds[i]]))
         /\ from_str("Tree", prover.tape[i]) = Some(Shape(Unwrap(pitems[UnauthIds[i]])))

C18_Witness ==
  /\ phase = "prove"
  /\ Len(prover.tape) = 1
  /\ script[Len(script)].op = "unauth"
  /\ Unwrap(pitems[Len(script)])[1] = "Bin"
  /\ Unwrap(pitems[Len(script)])[3].value # None
  /\ {<<Len(script), "l">>, <<Len(script), "r">>} \subseteq Avail

\* ------------------------------------------------------------ properties
\* of a failing call on a Verifier (SpecApi)

\* C19: a Verifier::unauth that fails with CommitmentMismatch has consumed
\* the entry it checked: the cursor is one past that entry, and an unauth
\* that follows examines the entry after it; a Verifier::unauth that fails
\* with TapeExhausted leaves the cursor at the end of the tape.
C19_CursorAfterFailure ==
  [][/\ (call'.op = "unauth" /\ verr' = "CommitmentMismatch") =>
          /\ call'.before = verifier.cursor
          /\ hash_str(verifier.tape[verifier.cursor + 1]) # Unwrap(call'.p).hash
          /\ verifier'.cursor = verifier.cursor + 1
     /\ (call.op = "unauth" /\ verr = "CommitmentMismatch" /\ call'.op = "unauth") =>
          call'.before = call.before + 1
     /\ (call'.op = "unauth" /\ verr' = "TapeExhausted") =>
          /\ verifier.cursor = Len(verifier.tape)
          /\ verifier'.cursor = Len(verifier.tape)]_vars

C19_Witness ==
  /\ call.op = "unauth"
  /\ verr = "CommitmentMismatch"
  /\ call.before = 1
  /\ verifier.cursor = 2
  /\ Len(verifier.tape) = 2

====
